---- MODULE Spec2Model ----
(***************************************************************************)
(* Job_Scheduler.cpp: a TaskScheduler owning a vector of Servers and a     *)
(* taskList.  addTask appends a task; processTasks(schedulingOrder,        *)
(* fittingStrategy) sorts the list once and then drains it in time-steps,  *)
(* trying each task up to retryLimit times with the chosen strategy.       *)
(*                                                                         *)
(* The program is single-threaded.  The model follows the control points   *)
(* of processTasks (pc) so that the states inside a best-fit / worst-fit   *)
(* probe (allocateResources done, releaseResources not yet) are states of  *)
(* the model.                                                              *)
(***************************************************************************)
EXTENDS Integers, Sequences, FiniteSets

\* ---- bounds of the model ----
MaxServers == 2      \* TaskScheduler(numServers) is built with 1..MaxServers servers
MaxTasks == 3        \* at most this many addTask calls
MaxTime == 3         \* time-steps explored (timeTracker is an unbounded int)

\* ---- program constants ----
totalCores == 24
totalMemory == 64
retryLimit == 5
INT_MAX == 2147483647

\* The tasks addTask is called with.  generateTaskDetails draws the four
\* fields at random; addTask itself accepts any TaskDetails.  The shapes are
\* chosen so that the three sort keys order them differently, two of them
\* fill a server exactly, and one exceeds totalCores.
TaskInputs ==
    { [arrivalTime |-> 1, coreRequirement |-> 2,  memoryRequirement |-> 20, execTime |-> 3],
      [arrivalTime |-> 0, coreRequirement |-> 12, memoryRequirement |-> 32, execTime |-> 1],
      [arrivalTime |-> 1, coreRequirement |-> 22, memoryRequirement |-> 20, execTime |-> 1],
      [arrivalTime |-> 2, coreRequirement |-> 25, memoryRequirement |-> 10, execTime |-> 2] }

SchedulingOrders == {"FCFS", "smallest", "duration"}
FittingStrategies == {"first", "best", "worst"}

VARIABLES
    servers,          \* vector<Server>: <<[availableCores, availableMemory], ...>>
    taskList,         \* vector<TaskDetails>
    timeTracker,      \* int timeTracker
    output,           \* the records written to the ofstream by recordResourceUtilization
    log,              \* the placement lines written to cout
    nextId,           \* the id generateTaskDetails gives the next task (its loop index i)
    pc,               \* control point: "idle" (outside processTasks), "while" (line 121),
                      \* "for" (line 125/127: next task or next attempt), "probed"
                      \* (line 78/94: inside a probe), "ret" (line 136: strategy returned)
    schedulingOrder,  \* processTasks parameter
    fittingStrategy,  \* processTasks parameter
    pendingTasks,     \* local of the while body
    taskIdx,          \* position of `task` in the range-for over taskList (1-based)
    retries,          \* retry loop counter
    selectedServer,   \* Server* selectedServer: 0 is nullptr, k is &servers[k]
    serverIdx,        \* position of `server` in the strategy's range-for (1-based)
    bestFit,          \* Server* bestFit / worstFit: 0 is nullptr
    leastWaste,       \* int leastWaste / maxWaste
    entryServers      \* history: servers as they were when the strategy was called

vars == <<servers, taskList, timeTracker, output, log, nextId, pc, schedulingOrder,
          fittingStrategy, pendingTasks, taskIdx, retries, selectedServer,
          serverIdx, bestFit, leastWaste, entryServers>>

schedulerVars == <<servers, taskList, timeTracker, output, log, nextId>>
passVars == <<schedulingOrder, fittingStrategy>>
stepVars == <<pendingTasks, taskIdx, retries>>
scanVars == <<serverIdx, bestFit, leastWaste>>

NumServers == Len(servers)

\* ---- TaskDetails ----
TaskDetails(id, at, cr, mr, et) ==
    [taskId |-> id, arrivalTime |-> at, coreRequirement |-> cr,
     memoryRequirement |-> mr, execTime |-> et]

calculateValue(task) == task.coreRequirement * task.memoryRequirement * task.execTime

\* ---- Server ----
Server == [availableCores |-> totalCores, availableMemory |-> totalMemory]

\* A variant that forgets the memory half of the guard of line 22.
allocateResources_CoresOnly(server, task) ==
    IF server.availableCores >= task.coreRequirement
    THEN [ok |-> TRUE,
          server |-> [availableCores |-> server.availableCores - task.coreRequirement,
                      availableMemory |-> server.availableMemory - task.memoryRequirement]]
    ELSE [ok |-> FALSE, server |-> server]

\* A variant whose guard wants strictly more than the requirement.
allocateResources_Strict(server, task) ==
    IF server.availableCores > task.coreRequirement
       /\ server.availableMemory > task.memoryRequirement
    THEN [ok |-> TRUE,
          server |-> [availableCores |-> server.availableCores - task.coreRequirement,
                      availableMemory |-> server.availableMemory - task.memoryRequirement]]
    ELSE [ok |-> FALSE, server |-> server]

allocateResources(server, task) ==
    IF server.availableCores >= task.coreRequirement
       /\ server.availableMemory >= task.memoryRequirement
    THEN [ok |-> TRUE,
          server |-> [availableCores |-> server.availableCores - task.coreRequirement,
                      availableMemory |-> server.availableMemory - task.memoryRequirement]]
    ELSE [ok |-> FALSE, server |-> server]

\* A variant that gives back the cores only.
releaseResources_CoresOnly(server, task) ==
    [availableCores |-> server.availableCores + task.coreRequirement,
     availableMemory |-> server.availableMemory]

\* A variant that gives back the memory only.
releaseResources_MemoryOnly(server, task) ==
    [availableCores |-> server.availableCores,
     availableMemory |-> server.availableMemory + task.memoryRequirement]

releaseResources(server, task) ==
    [availableCores |-> server.availableCores + task.coreRequirement,
     availableMemory |-> server.availableMemory + task.memoryRequirement]

\* ---- ordering (lines 48-64): std::sort with a strict comparator ----
byArrivalTime(a, b) == a.arrivalTime < b.arrivalTime

byResourceValue(a, b) == calculateValue(a) < calculateValue(b)

byDuration(a, b) == a.execTime < b.execTime

\* The comparator each sort passes to std::sort.
Comparator(order, a, b) ==
    CASE order = "FCFS" -> byArrivalTime(a, b)
      [] order = "smallest" -> byResourceValue(a, b)
      [] order = "duration" -> byDuration(a, b)

Permutations(n) == { p \in [1..n -> 1..n] : \A x, y \in 1..n : p[x] = p[y] => x = y }

\* std::sort is not a stable sort: it returns some permutation of the range
\* in which no element is followed by one that compares less than it; the
\* order of elements that compare equal is unspecified.
StdSort(list, order) ==
    { [k \in 1..Len(list) |-> list[p[k]]] : p \in
        { q \in Permutations(Len(list)) :
            \A x, y \in 1..Len(list) :
                x < y => ~Comparator(order, list[q[y]], list[q[x]]) } }

sortTasksByArrivalTime(list) == StdSort(list, "FCFS")

sortTasksByResourceValue(list) == StdSort(list, "smallest")

\* A variant with the comparator of sortTasksByArrivalTime pasted in.
sortTasksByDuration_ByArrival(list) == StdSort(list, "FCFS")

sortTasksByDuration(list) == StdSort(list, "duration")

\* A variant of allocateUsingFirstFit's loop that keeps the last server whose
\* allocateResources succeeds instead of returning at the first.
FirstFitFrom_Last(srv, task, k) ==
    LET fitting == { n \in k..Len(srv) : allocateResources(srv[n], task).ok }
    IN IF fitting = {} THEN 0
       ELSE CHOOSE n \in fitting : \A m \in fitting : m <= n

\* ---- placement strategies (lines 66-103) ----
\* allocateUsingFirstFit: the index of the first server, from k on, whose
\* allocateResources succeeds; 0 (nullptr) when the loop runs off the end.
RECURSIVE FirstFitFrom(_, _, _)
FirstFitFrom(srv, task, k) ==
    IF k > Len(srv) THEN 0
    ELSE IF allocateResources(srv[k], task).ok THEN k
    ELSE FirstFitFrom(srv, task, k + 1)

\* A variant that starts worst-fit's maximum at the least int, as best-fit's
\* minimum starts at the greatest.
InitialWaste_Symmetric(strategy) == IF strategy = "best" THEN INT_MAX ELSE -INT_MAX - 1

\* leastWaste = INT_MAX (line 75), maxWaste = 0 (line 91)
InitialWaste(strategy) == IF strategy = "best" THEN INT_MAX ELSE 0

\* line 78 / line 94, evaluated on the server as allocateResources left it
Waste(server, task) ==
    (server.availableCores - task.coreRequirement)
    + (server.availableMemory - task.memoryRequirement)

\* A variant with the comparisons not strict.
Improves_NotStrict(strategy, waste, current) ==
    IF strategy = "best" THEN waste <= current ELSE waste >= current

\* waste < leastWaste (line 79), waste > maxWaste (line 95)
Improves(strategy, waste, current) ==
    IF strategy = "best" THEN waste < current ELSE waste > current

\* ---- recordResourceUtilization (lines 157-165) ----
RECURSIVE SumUsed(_, _)
SumUsed(srv, k) ==
    IF k = 0 THEN [cores |-> 0, memory |-> 0]
    ELSE LET rest == SumUsed(srv, k - 1)
         IN [cores |-> rest.cores + (totalCores - srv[k].availableCores),
             memory |-> rest.memory + (totalMemory - srv[k].availableMemory)]

\* One output line.  The program prints the mean over the servers of
\* (1 - available/total) * 100 as doubles; the record keeps the exact
\* numerators: mean CPU utilization = usedCores * 100 / (totalCores * servers).
UtilizationRecord(time, srv) ==
    [time |-> time, usedCores |-> SumUsed(srv, Len(srv)).cores,
     usedMemory |-> SumUsed(srv, Len(srv)).memory, servers |-> Len(srv)]

\* The cout line of a successful placement (lines 137-142).
PlacementRecord(task) ==
    [taskId |-> task.taskId, arrivalDay |-> task.arrivalTime \div 24,
     timeHour |-> task.arrivalTime % 24, memReq |-> task.memoryRequirement,
     cpuReq |-> task.coreRequirement, exeTime |-> task.execTime]

\* ---- initial state: TaskScheduler(numServers), nothing added yet ----
Init ==
    /\ \E numServers \in 1..MaxServers : servers = [k \in 1..numServers |-> Server]
    /\ taskList = <<>>
    /\ timeTracker = 0
    /\ output = <<>>
    /\ log = <<>>
    /\ nextId = 0
    /\ pc = "idle"
    /\ schedulingOrder = "" /\ fittingStrategy = ""
    /\ pendingTasks = <<>> /\ taskIdx = 0 /\ retries = 0
    /\ selectedServer = 0
    /\ serverIdx = 0 /\ bestFit = 0 /\ leastWaste = 0
    /\ entryServers = servers

\* ---- addTask (line 110), called as generateTaskDetails calls it ----
addTask(fields) ==
    /\ pc = "idle"
    /\ nextId < MaxTasks
    /\ taskList' = Append(taskList, TaskDetails(nextId, fields.arrivalTime,
                              fields.coreRequirement, fields.memoryRequirement,
                              fields.execTime))
    /\ nextId' = nextId + 1
    /\ UNCHANGED <<servers, timeTracker, output, log, pc, entryServers, selectedServer>>
    /\ UNCHANGED <<passVars, stepVars, scanVars>>

\* A variant that starts every pass on fresh servers.
processTasks_ResetsServers(order, strategy) ==
    /\ pc = "idle"
    /\ taskList' \in StdSort(taskList, order)
    /\ schedulingOrder' = order
    /\ fittingStrategy' = strategy
    /\ servers' = [k \in 1..NumServers |-> Server]
    /\ entryServers' = servers'
    /\ pc' = "while"
    /\ UNCHANGED <<timeTracker, output, log, nextId, selectedServer>>
    /\ UNCHANGED <<stepVars, scanVars>>

\* ---- processTasks entry (lines 112-119): the one sort of the pass ----
processTasks(order, strategy) ==
    /\ pc = "idle"
    /\ taskList' \in (CASE order = "FCFS" -> sortTasksByArrivalTime(taskList)
                        [] order = "smallest" -> sortTasksByResourceValue(taskList)
                        [] order = "duration" -> sortTasksByDuration(taskList))
    /\ schedulingOrder' = order
    /\ fittingStrategy' = strategy
    /\ pc' = "while"
    /\ UNCHANGED <<servers, timeTracker, output, log, nextId, entryServers, selectedServer>>
    /\ UNCHANGED <<stepVars, scanVars>>

\* ---- line 121: while (!taskList.empty()) is false, processTasks returns ----
WhileExit ==
    /\ pc = "while"
    /\ taskList = <<>>
    /\ pc' = "idle"
    /\ schedulingOrder' = "" /\ fittingStrategy' = ""
    /\ UNCHANGED <<schedulerVars, entryServers, selectedServer, stepVars, scanVars>>

\* ---- lines 121-127: a time-step begins at its first task ----
StepBegins(newTime) ==
    /\ pc = "while"
    /\ taskList # <<>>
    /\ timeTracker' = newTime
    /\ pendingTasks' = <<>>
    /\ taskIdx' = 1
    /\ retries' = 0
    /\ pc' = "for"
    /\ UNCHANGED <<servers, taskList, output, log, nextId, entryServers, selectedServer>>
    /\ UNCHANGED <<passVars, scanVars>>

\* A variant that tests the loop condition after the body (do ... while).
BeginStep_DoWhile ==
    /\ timeTracker < MaxTime
    /\ pc = "while"
    /\ timeTracker' = timeTracker + 1
    /\ pendingTasks' = <<>>
    /\ taskIdx' = 1
    /\ retries' = 0
    /\ pc' = "for"
    /\ UNCHANGED <<servers, taskList, output, log, nextId, entryServers, selectedServer>>
    /\ UNCHANGED <<passVars, scanVars>>

BeginStep ==
    /\ timeTracker < MaxTime
    /\ StepBegins(timeTracker + 1)

\* ---- lines 152-153: the range-for is over ----
StepEnds(newOutput) ==
    /\ pc = "for"
    /\ taskIdx > Len(taskList)
    /\ taskList' = pendingTasks
    /\ output' = newOutput
    /\ pendingTasks' = <<>>
    /\ taskIdx' = 0
    /\ pc' = "while"
    /\ UNCHANGED <<servers, timeTracker, log, nextId, entryServers, selectedServer>>
    /\ UNCHANGED <<passVars, retries, scanVars>>

\* A variant in which the tasks placed so far complete when the step ends.
EndStep_FreesServers ==
    /\ pc = "for"
    /\ taskIdx > Len(taskList)
    /\ taskList' = pendingTasks
    /\ servers' = [k \in 1..NumServers |-> Server]
    /\ output' = Append(output, UtilizationRecord(timeTracker, servers))
    /\ pendingTasks' = <<>>
    /\ taskIdx' = 0
    /\ pc' = "while"
    /\ UNCHANGED <<timeTracker, log, nextId, entryServers, selectedServer>>
    /\ UNCHANGED <<passVars, retries, scanVars>>

\* A variant whose record carries the counter as it was before line 122.
EndStep_StaleTime == StepEnds(Append(output, UtilizationRecord(timeTracker - 1, servers)))

EndStep == StepEnds(Append(output, UtilizationRecord(timeTracker, servers)))

\* ---- lines 127-130 with 66-71: one attempt with allocateUsingFirstFit ----
\* (at "for" with taskIdx in range, scheduled is false and retries < retryLimit)
AttemptFirstFit ==
    /\ pc = "for"
    /\ taskIdx <= Len(taskList)
    /\ fittingStrategy = "first"
    /\ LET task == taskList[taskIdx]
           k == FirstFitFrom(servers, task, 1)
       IN /\ selectedServer' = k
          /\ servers' = IF k = 0 THEN servers
                        ELSE [servers EXCEPT ![k] = allocateResources(servers[k], task).server]
    /\ entryServers' = servers
    /\ pc' = "ret"
    /\ UNCHANGED <<taskList, timeTracker, output, log, nextId>>
    /\ UNCHANGED <<passVars, stepVars, scanVars>>

\* The scan of allocateUsingBestFit / allocateUsingWorstFit from server k on,
\* with `best` the candidate so far and `least` its waste.  Servers whose
\* allocateResources fails are passed over (nothing changes); at the first one
\* that succeeds the scan stands inside the probe (line 78 / 94); off the end
\* it returns the candidate (line 86 / 102) and its locals go out of scope.
ScanFrom(srv, k, best, least) ==
    LET task == taskList[taskIdx]
        n == FirstFitFrom(srv, task, k)
    IN IF n # 0
       THEN /\ servers' = [srv EXCEPT ![n] = allocateResources(srv[n], task).server]
            /\ serverIdx' = n
            /\ bestFit' = best
            /\ leastWaste' = least
            /\ pc' = "probed"
            /\ UNCHANGED selectedServer
       ELSE /\ servers' = srv
            /\ selectedServer' = best
            /\ serverIdx' = 0 /\ bestFit' = 0 /\ leastWaste' = 0
            /\ pc' = "ret"

\* ---- lines 127-134: one attempt with allocateUsingBestFit / WorstFit begins ----
AttemptScanFit ==
    /\ pc = "for"
    /\ taskIdx <= Len(taskList)
    /\ fittingStrategy \in {"best", "worst"}
    /\ entryServers' = servers
    /\ ScanFrom(servers, 1, 0, InitialWaste(fittingStrategy))
    /\ UNCHANGED <<taskList, timeTracker, output, log, nextId>>
    /\ UNCHANGED <<passVars, stepVars>>

\* ---- lines 78-83 / 94-99: score the probed server, releaseResources, scan on ----
ScoreAndRelease ==
    /\ pc = "probed"
    /\ LET task == taskList[taskIdx]
           waste == Waste(servers[serverIdx], task)
           better == Improves(fittingStrategy, waste, leastWaste)
           released == [servers EXCEPT ![serverIdx] = releaseResources(servers[serverIdx], task)]
       IN ScanFrom(released, serverIdx + 1,
                   IF better THEN serverIdx ELSE bestFit,
                   IF better THEN waste ELSE leastWaste)
    /\ UNCHANGED <<taskList, timeTracker, output, log, nextId, entryServers>>
    /\ UNCHANGED <<passVars, stepVars>>

\* A variant whose push_back of line 148 is not guarded by !scheduled.
Placed_AlsoRequeued ==
    /\ pc = "ret"
    /\ selectedServer # 0
    /\ log' = Append(log, PlacementRecord(taskList[taskIdx]))
    /\ selectedServer' = 0
    /\ pendingTasks' = Append(pendingTasks, taskList[taskIdx])
    /\ taskIdx' = taskIdx + 1
    /\ retries' = 0
    /\ entryServers' = servers
    /\ pc' = "for"
    /\ UNCHANGED <<servers, taskList, timeTracker, output, nextId>>
    /\ UNCHANGED <<passVars, scanVars>>

\* ---- lines 136-145, 147, 125: the attempt placed the task; on to the next task ----
Placed ==
    /\ pc = "ret"
    /\ selectedServer # 0
    /\ log' = Append(log, PlacementRecord(taskList[taskIdx]))
    /\ selectedServer' = 0
    /\ taskIdx' = taskIdx + 1
    /\ retries' = 0
    /\ entryServers' = servers
    /\ pc' = "for"
    /\ UNCHANGED <<servers, taskList, timeTracker, output, nextId>>
    /\ UNCHANGED <<passVars, pendingTasks, scanVars>>

\* A variant whose retry loop tests retries <= retryLimit.
NotPlaced_OneMore ==
    /\ pc = "ret"
    /\ selectedServer = 0
    /\ IF retries + 1 <= retryLimit
       THEN /\ retries' = retries + 1
            /\ UNCHANGED <<pendingTasks, taskIdx>>
       ELSE /\ pendingTasks' = Append(pendingTasks, taskList[taskIdx])
            /\ taskIdx' = taskIdx + 1
            /\ retries' = 0
    /\ pc' = "for"
    /\ UNCHANGED <<schedulerVars, entryServers, passVars, selectedServer, scanVars>>

\* ---- lines 136, 127: the attempt failed; retries++, and after the last
\* ---- attempt lines 147-149: the task goes to pendingTasks
NotPlaced ==
    /\ pc = "ret"
    /\ selectedServer = 0
    /\ IF retries + 1 < retryLimit
       THEN /\ retries' = retries + 1
            /\ UNCHANGED <<pendingTasks, taskIdx>>
       ELSE /\ pendingTasks' = Append(pendingTasks, taskList[taskIdx])
            /\ taskIdx' = taskIdx + 1
            /\ retries' = 0
    /\ pc' = "for"
    /\ UNCHANGED <<schedulerVars, entryServers, passVars, selectedServer, scanVars>>

Next ==
    \/ \E fields \in TaskInputs : addTask(fields)
    \/ \E order \in SchedulingOrders, strategy \in FittingStrategies :
          processTasks(order, strategy)
    \/ WhileExit
    \/ BeginStep
    \/ EndStep
    \/ AttemptFirstFit
    \/ AttemptScanFit
    \/ ScoreAndRelease
    \/ Placed
    \/ NotPlaced

Spec == Init /\ [][Next]_vars

\* ---- the specification for liveness ----
\* timeTracker is only written (line 122) and printed (line 163); nothing
\* branches on it.  So that a drain loop that never ends is a cycle of finitely
\* many states, this specification keeps the counter and the output only up to
\* MaxTime steps: beyond, the counter stays at MaxTime and the records are not
\* kept.  Everything else is as in Next.
BeginStepFolded ==
    StepBegins(IF timeTracker < MaxTime THEN timeTracker + 1 ELSE MaxTime)

EndStepFolded ==
    StepEnds(IF Len(output) < MaxTime
             THEN Append(output, UtilizationRecord(timeTracker, servers))
             ELSE output)

\* A step of a running processTasks call.
PassStep ==
    \/ WhileExit
    \/ BeginStepFolded
    \/ EndStepFolded
    \/ AttemptFirstFit
    \/ AttemptScanFit
    \/ ScoreAndRelease
    \/ Placed
    \/ NotPlaced

NextFolded ==
    \/ \E fields \in TaskInputs : addTask(fields)
    \/ \E order \in SchedulingOrders, strategy \in FittingStrategies :
          processTasks(order, strategy)
    \/ PassStep

\* The program is one thread: once processTasks is called it keeps executing
\* its next statement.  Nothing obliges main to call addTask or processTasks.
FairSpec == Init /\ [][NextFolded]_vars /\ WF_vars(PassStep)

\* ---- what the claims speak of ----
CurrentTask == taskList[taskIdx]

Fits(server, task) ==
    /\ server.availableCores >= task.coreRequirement
    /\ server.availableMemory >= task.memoryRequirement

Debited(server, task) ==
    [availableCores |-> server.availableCores - task.coreRequirement,
     availableMemory |-> server.availableMemory - task.memoryRequirement]

FittingServers(srv, task) == { k \in 1..Len(srv) : Fits(srv[k], task) }

\* C1: whenever a strategy (first-fit, best-fit, worst-fit) returns a server
\* for a task, that server's available cores and memory are lower than when
\* the strategy was called by exactly the task's requirements, and every
\* other server is as it was.
C1_OneAllocationPerPlacement ==
    (pc = "ret" /\ selectedServer # 0) =>
        \A k \in 1..NumServers :
            servers[k] = IF k = selectedServer
                         THEN Debited(entryServers[k], CurrentTask)
                         ELSE entryServers[k]

\* C2: in every reachable state, the states inside a speculative probe
\* included, every server has 0 <= availableCores <= totalCores and
\* 0 <= availableMemory <= totalMemory.
C2_CapacityInvariant ==
    \A k \in 1..NumServers :
        /\ 0 <= servers[k].availableCores /\ servers[k].availableCores <= totalCores
        /\ 0 <= servers[k].availableMemory /\ servers[k].availableMemory <= totalMemory

\* A probe that has taken a server's last core and last unit of memory.
C2_Witness ==
    /\ pc = "probed"
    /\ servers[serverIdx].availableCores = 0
    /\ servers[serverIdx].availableMemory = 0

\* A task no server can ever hold: it asks for more than a whole server.
Unsatisfiable(task) ==
    \/ task.coreRequirement > totalCores
    \/ task.memoryRequirement > totalMemory

\* C3: a processTasks run whose pending set holds an unsatisfiable task does
\* not loop for ever: it comes to an end (the program has no other way of
\* reporting the task than returning from the drain loop).
C3_UnsatisfiableRunTerminates ==
    (pc # "idle" /\ \E k \in 1..Len(taskList) : Unsatisfiable(taskList[k]))
        ~> (pc = "idle")

\* What is left of a server, cores plus memory, once the task is allocated on it.
Leftover(server, task) ==
    (server.availableCores - task.coreRequirement)
    + (server.availableMemory - task.memoryRequirement)

\* The first server in scan order among those of `among` with the least
\* (sign = 1) or the greatest (sign = -1) leftover; 0 when there is none.
FirstExtreme(srv, task, among, sign) ==
    IF among = {} THEN 0
    ELSE LET extreme == { k \in among : \A m \in among :
                            sign * Leftover(srv[k], task) <= sign * Leftover(srv[m], task) }
         IN CHOOSE k \in extreme : \A m \in extreme : k <= m

\* C4: best-fit returns the first server in scan order among the fitting
\* servers with the least leftover (cores + memory after the would-be
\* allocation), and none when no server fits.
C4_BestFitOptimal ==
    (pc = "ret" /\ fittingStrategy = "best") =>
        selectedServer = FirstExtreme(entryServers, CurrentTask,
                                      FittingServers(entryServers, CurrentTask), 1)

\* Best-fit returned the second server although the first one fits too.
C4_Witness ==
    /\ pc = "ret" /\ fittingStrategy = "best"
    /\ selectedServer = 2
    /\ Fits(entryServers[1], CurrentTask)

\* C5: when some fitting server would be left with cores + memory > 0,
\* worst-fit returns the first server in scan order among the fitting servers
\* with the greatest leftover.
C5_WorstFitSelectsMaxWaste ==
    (/\ pc = "ret" /\ fittingStrategy = "worst"
     /\ \E k \in FittingServers(entryServers, CurrentTask) :
            Leftover(entryServers[k], CurrentTask) > 0) =>
        selectedServer = FirstExtreme(entryServers, CurrentTask,
                                      FittingServers(entryServers, CurrentTask), -1)

ExactFit(server, task) ==
    /\ server.availableCores = task.coreRequirement
    /\ server.availableMemory = task.memoryRequirement

\* C6: worst-fit never returns a server whose availability equals the task's
\* requirement in both dimensions; when such a server is the only one that
\* fits, worst-fit returns none.
C6_WorstFitSkipsExactFit ==
    (pc = "ret" /\ fittingStrategy = "worst") =>
        /\ selectedServer # 0 => ~ExactFit(entryServers[selectedServer], CurrentTask)
        /\ (/\ FittingServers(entryServers, CurrentTask) # {}
            /\ \A k \in FittingServers(entryServers, CurrentTask) :
                   ExactFit(entryServers[k], CurrentTask)) => selectedServer = 0

\* Worst-fit has returned for a task that only an exact-fit server could hold.
C6_Witness ==
    /\ pc = "ret" /\ fittingStrategy = "worst"
    /\ FittingServers(entryServers, CurrentTask) # {}
    /\ \A k \in FittingServers(entryServers, CurrentTask) :
           ExactFit(entryServers[k], CurrentTask)

\* C7: every call of allocateResources succeeds if and only if the server has
\* at least the task's cores and at least its memory; a call that succeeds
\* lowers both by exactly the requirement, a call that fails changes nothing.
\* (A step to "probed" is one successful call after failed calls on the servers
\* passed over; a step to "ret" ends a scan in failed calls, or is first-fit's
\* loop up to its first success.)
C7_AllocateIffFits ==
    [][LET task == taskList[taskIdx]
           e == entryServers'
           start == IF pc = "probed" THEN serverIdx + 1 ELSE 1
       IN /\ (pc \in {"for", "probed"} /\ pc' = "probed") =>
                /\ Fits(e[serverIdx'], task)
                /\ servers'[serverIdx'] = Debited(e[serverIdx'], task)
                /\ \A k \in start..(serverIdx' - 1) :
                       ~Fits(e[k], task) /\ servers'[k] = e[k]
          /\ (pc \in {"for", "probed"} /\ pc' = "ret" /\ fittingStrategy # "first") =>
                \A k \in start..NumServers : ~Fits(e[k], task) /\ servers'[k] = e[k]
          /\ (pc = "for" /\ pc' = "ret" /\ fittingStrategy = "first") =>
                /\ \A k \in 1..(IF selectedServer' = 0 THEN NumServers
                                ELSE selectedServer' - 1) :
                       ~Fits(e[k], task) /\ servers'[k] = e[k]
                /\ selectedServer' # 0 =>
                       /\ Fits(e[selectedServer'], task)
                       /\ servers'[selectedServer'] = Debited(e[selectedServer'], task)
      ]_vars

\* A call on the second server has succeeded after the call on the first failed.
C7_Witness ==
    /\ pc = "probed"
    /\ serverIdx = 2
    /\ ~Fits(entryServers[1], CurrentTask)
    /\ servers[2] = Debited(entryServers[2], CurrentTask)

\* C8: when a strategy returns no server, every server's availability is what
\* it was when the strategy was called.
C8_NoServerNoEffect ==
    (pc = "ret" /\ selectedServer = 0) => servers = entryServers

\* Worst-fit has probed a server that fits and has returned none.
C8_Witness ==
    /\ pc = "ret" /\ selectedServer = 0
    /\ fittingStrategy = "worst"
    /\ FittingServers(entryServers, CurrentTask) # {}

TaskIds(list) == { list[k].taskId : k \in 1..Len(list) }

NoDuplicates(list) ==
    \A a, b \in 1..Len(list) : list[a].taskId = list[b].taskId => a = b

IsLogged(task) == task.taskId \in TaskIds(log)

NotLogged(task) == ~IsLogged(task)

\* C9: the step's end makes the pending set exactly the tasks of the current
\* pending set that were not placed, in their order; no task is reported
\* placed twice; and between steps every task added so far is either pending
\* or reported placed, never both and never neither.
C9_TaskConservation ==
    [][/\ (pc = "for" /\ pc' = "while") => taskList' = SelectSeq(taskList, NotLogged)
       /\ NoDuplicates(log')
       /\ pc' \in {"idle", "while"} =>
             /\ NoDuplicates(taskList')
             /\ TaskIds(taskList') \cap TaskIds(log') = {}
             /\ TaskIds(taskList') \cup TaskIds(log') = 0..(nextId' - 1)
      ]_vars

\* The first step ever has ended with a task placed and a task deferred.
C9_Witness ==
    /\ pc = "while"
    /\ Len(output) = 1
    /\ log # <<>>
    /\ taskList # <<>>

\* The key of the ordering named by schedulingOrder.
OrderingKey(order, task) ==
    CASE order = "FCFS" -> task.arrivalTime
      [] order = "smallest" ->
            task.coreRequirement * task.memoryRequirement * task.execTime
      [] order = "duration" -> task.execTime

\* C10: all through a pass, in every time-step, the tasks are attempted in
\* ascending order of the pass's key: the list the range-for walks is sorted.
C10_AttemptedInKeyOrder ==
    pc # "idle" =>
        \A a, b \in 1..Len(taskList) :
            a < b => OrderingKey(schedulingOrder, taskList[a])
                        <= OrderingKey(schedulingOrder, taskList[b])

\* The second step of a pass, at its second task, the two deferred tasks having
\* different keys: the one placement so far is of the task added last, so
\* that step 1 belongs to this pass.
C10_Witness ==
    /\ pc = "ret"
    /\ timeTracker = 2
    /\ Len(taskList) = 2 /\ taskIdx = 2
    /\ Len(log) = 1 /\ nextId = 3 /\ log[1].taskId = 2
    /\ OrderingKey(schedulingOrder, taskList[1]) < OrderingKey(schedulingOrder, taskList[2])

\* C11: each ordering is stable on ties: during a pass, two pending tasks
\* with equal key stand in the order in which addTask received them (the
\* order of their ids).
C11_StableOnTies ==
    pc # "idle" =>
        \A a, b \in 1..Len(taskList) :
            (/\ a < b
             /\ OrderingKey(schedulingOrder, taskList[a])
                    = OrderingKey(schedulingOrder, taskList[b]))
                => taskList[a].taskId < taskList[b].taskId

\* C12: nothing but a placement attempt touches the servers: a pass starts
\* on the availability the previous pass left, and neither the entry of
\* processTasks, nor its return, nor the start or end of a time-step, nor
\* addTask changes any server.
C12_CapacityCarriedOver ==
    [][(pc \in {"idle", "while"} \/ pc' \in {"idle", "while"}) => servers' = servers]_vars

\* A best-fit pass has started on a server an earlier first-fit pass debited
\* (best-fit itself debits nothing).
C12_Witness ==
    /\ pc = "while"
    /\ fittingStrategy = "best"
    /\ taskList # <<>>
    /\ servers[1] # Server

\* C13: every executed time-step emits exactly one utilization record, after
\* its placement attempts; the counter goes up by one when a step starts and
\* the step's record carries it: the records are numbered 1, 2, 3, ... with no
\* gap, over all passes; inside a step its record is not yet written.
C13_OneRecordPerStep ==
    /\ \A k \in 1..Len(output) : output[k].time = k
    /\ pc \in {"idle", "while"} => Len(output) = timeTracker
    /\ pc \in {"for", "probed", "ret"} => Len(output) = timeTracker - 1

\* Two records from two passes: the second one shows more cores in use, and
\* a pass never places anything after its first step has left tasks over.
C13_Witness ==
    /\ pc = "idle"
    /\ Len(output) = 2
    /\ output[1].usedCores < output[2].usedCores

\* C14: a successful allocateResources followed by one releaseResources for
\* the same task gives the server back its availability: inside a probe every
\* other server (the ones probed before among them) is as at the strategy's
\* entry, and when best-fit or worst-fit returns, all of them are.
C14_AllocateReleaseRestores ==
    /\ pc = "probed" =>
          \A k \in 1..NumServers : k # serverIdx => servers[k] = entryServers[k]
    /\ (pc = "ret" /\ fittingStrategy # "first") => servers = entryServers

\* The scan is inside its probe of server 2, having probed and released server 1.
C14_Witness ==
    /\ pc = "probed"
    /\ serverIdx = 2
    /\ Fits(entryServers[1], CurrentTask)
    /\ servers[1] = entryServers[1]

\* C15: a run all of whose pending tasks fit a whole server (none asks for
\* more than totalCores or totalMemory) comes to an end, the pending set empty.
C15_SatisfiableRunTerminates ==
    (pc # "idle" /\ \A k \in 1..Len(taskList) : ~Unsatisfiable(taskList[k]))
        ~> (pc = "idle" /\ taskList = <<>>)

\* C16: first-fit returns the first server in list order whose availability
\* covers the task in both dimensions (none when there is none), has debited
\* that server by the requirement when it returns, and leaves every other
\* server as it was: the choice is a function of the servers and the task.
C16_FirstFitFirstInOrder ==
    (pc = "ret" /\ fittingStrategy = "first") =>
        LET fitting == FittingServers(entryServers, CurrentTask)
        IN /\ selectedServer = IF fitting = {} THEN 0
                               ELSE CHOOSE k \in fitting : \A m \in fitting : k <= m
           /\ \A k \in 1..NumServers :
                  servers[k] = IF k = selectedServer
                               THEN Debited(entryServers[k], CurrentTask)
                               ELSE entryServers[k]

\* First-fit has returned the first server although the second fits as well.
C16_Witness ==
    /\ pc = "ret" /\ fittingStrategy = "first"
    /\ selectedServer = 1
    /\ NumServers >= 2
    /\ Fits(entryServers[2], CurrentTask)

\* C17: in a time-step a task gets at most 5 attempts (retries counts the
\* failed ones); a successful attempt is the task's last, the range-for moves
\* on and the task is not deferred; a failed attempt is followed by another
\* attempt on the same task unless it was the fifth, and only the fifth
\* failure puts the task into pendingTasks.
C17_AtMostFiveAttempts ==
    [][/\ (pc = "for" /\ pc' \in {"probed", "ret"}) => retries < 5
       /\ (pc = "ret" /\ selectedServer # 0) =>
             /\ taskIdx' = taskIdx + 1
             /\ pendingTasks' = pendingTasks
             /\ Len(log') = Len(log) + 1
       /\ (pc = "ret" /\ selectedServer = 0 /\ retries + 1 < 5) =>
             /\ taskIdx' = taskIdx /\ retries' = retries + 1
             /\ pendingTasks' = pendingTasks
       /\ (pc = "ret" /\ selectedServer = 0 /\ retries + 1 >= 5) =>
             /\ retries + 1 = 5
             /\ taskIdx' = taskIdx + 1
             /\ pendingTasks' = Append(pendingTasks, taskList[taskIdx])
       /\ taskIdx' # taskIdx => retries' = 0
       /\ pendingTasks' # pendingTasks =>
             (pc = "ret" /\ retries = 4) \/ pendingTasks' = <<>>
      ]_vars

\* First-fit has failed for the fifth time on a task.
C17_Witness ==
    /\ pc = "ret" /\ fittingStrategy = "first"
    /\ selectedServer = 0
    /\ retries = 4

\* C18: once a task's first attempt of a step has failed, every further
\* attempt of the step fails too and the servers are, before and after each
\* of them, as they were at the first attempt.
C18_RetriesChangeNothing ==
    (retries >= 1 /\ pc \in {"for", "ret"}) =>
        /\ servers = entryServers
        /\ pc = "ret" => selectedServer = 0

\* Worst-fit, on a retry, has again probed a server that fits and returned none.
C18_Witness ==
    /\ pc = "ret" /\ fittingStrategy = "worst"
    /\ retries >= 1
    /\ FittingServers(entryServers, CurrentTask) # {}

AtMost(a, b) ==
    /\ a.availableCores <= b.availableCores
    /\ a.availableMemory <= b.availableMemory

\* C19: what an attempt has committed is never given back.  entryServers is
\* the availability outside of attempts (it equals servers whenever no
\* attempt is under way); it never goes up on any server, and servers never
\* exceed it: so every server's availability at the end of a time-step is at
\* most what it was at the end of the step before, whatever the execTime of
\* the tasks placed.
C19_NeverReleased ==
    [][/\ \A k \in 1..NumServers :
             /\ AtMost(servers'[k], entryServers'[k])
             /\ AtMost(entryServers'[k], entryServers[k])
       /\ pc' \in {"idle", "while", "for"} => entryServers' = servers'
      ]_vars

\* Two steps have ended, the first with cores in use, and server 1 is still
\* not free.
C19_Witness ==
    /\ pc = "while"
    /\ Len(output) = 2
    /\ output[1].usedCores > 0
    /\ servers[1] # Server

\* C20: processTasks called with nothing pending executes no time-step: the
\* call and its return change neither the counter, nor a server, nor the
\* output, nor the placement log, and from the loop test with an empty list
\* the only step is the return.
C20_EmptyPassDoesNothing ==
    [][/\ (pc = "idle" /\ pc' = "while") =>
             /\ UNCHANGED <<servers, timeTracker, output, log>>
             /\ taskList = <<>> => taskList' = <<>>
       /\ (pc = "while" /\ taskList = <<>>) =>
             /\ pc' = "idle"
             /\ UNCHANGED <<servers, timeTracker, output, log, taskList>>
      ]_vars

\* A best-fit pass stands at its loop test with nothing pending; the one
\* time-step so far debited a server, so it was a first-fit pass's: this pass
\* was called, after that one had returned, with nothing to do.
C20_Witness ==
    /\ pc = "while"
    /\ fittingStrategy = "best"
    /\ taskList = <<>>
    /\ timeTracker = 1
    /\ servers[1] # Server

====
